---- MODULE Spec2Model ----
(***************************************************************************)
(* GraphRAG (term2/lection6/rag-service/graph_rag.py): ingest, query and   *)
(* delete over a PostgreSQL store (documents table with pgvector, Apache   *)
(* AGE graph, document_nodes table), an embedding backend and a chat       *)
(* completion backend.                                                      *)
(*                                                                         *)
(* Each request is a coroutine of one asyncio event loop.  A coroutine     *)
(* gives up control only where it awaits a network call of the AsyncOpenAI *)
(* client (embeddings.create, chat.completions.create); the SQLAlchemy     *)
(* session calls are synchronous.  An action below is the code that runs   *)
(* between two such suspension points.                                     *)
(*                                                                         *)
(* Storage follows PostgreSQL: a statement the server rejects leaves the   *)
(* session's transaction aborted, and COMMIT of an aborted transaction     *)
(* ends it as a rollback without raising.  The id sequence of documents    *)
(* is not transactional.                                                   *)
(*                                                                         *)
(* The AsyncOpenAI client is built without max_retries, so it keeps the    *)
(* library's default and re-sends an unanswered request before it raises.  *)
(*                                                                         *)
(* Spec is ingest_document, query and delete_document; SpecSessions adds   *)
(* get_documents_stats and check_db_connection.  The variable deleted is a *)
(* history variable: no action reads it.                                   *)
(***************************************************************************)
EXTENDS Integers, Sequences, FiniteSets, TLC

\* ------------------------------------------------------------------ bounds
\* ids the documents sequence may hand out
MaxDocs == 2
\* the sessions left open that are counted
MaxLeaked == 1

\* ------------------------------------------------------- program constants
EMBEDDING_DIMENSIONS == 768
PREVIEW_CHARS == 200
SNIPPET_CHARS == 300
GRAPH_ROW_LIMIT == 20
\* max_retries of the AsyncOpenAI client, which __init__ leaves at the
\* library's default
DEFAULT_MAX_RETRIES == 2
\* similarities are fixed-point numbers with SimScale for 1.0
SimScale == 100000

\* request slots: every slot ingests and deletes, the Readers also query
Procs == { "r1", "r2" }
Readers == { "r1" }

Min(a, b) == IF a <= b THEN a ELSE b

\* Optional values: None is the empty sequence, Some(x) a one-element one.
None == << >>
Some(x) == << x >>

\* --------------------------------------------------------------- the inputs
\* A text is its name, its length in characters and the number of
\* apostrophes in it (all of them among its first characters).
Text(name, len, quotes) == [txt |-> name, len |-> len, quotes |-> quotes]
NoText == Text("", 0, 0)

Questions == { Text("ml?", 25, 0), Text("ai?", 12, 0) }

\* metadata: an optional mapping; a mapping is a set of <<key, value>>
\* pairs, a value a record of its Python type and its text
StrVal(s) == [type |-> "str", val |-> s]
IntVal(s) == [type |-> "int", val |-> s]

\* the (content, metadata) pairs callers ingest
Ingests ==
    { << Text("ml", 35, 0), Some({ <<"source", StrVal("textbook")>> }) >>,
      << Text("ai", 350, 1), None >>,
      << Text("ai", 350, 1), Some({ <<"source", IntVal("7")>> }) >> }

\* top_k
TopKs == { 1, 2 }
\* similarity_threshold: 0.0, 0.6 and a value no similarity reaches
Thresholds == { 0, 6 * (SimScale \div 10), SimScale + 1 }

\* ------------------------------------------------------ embedding backend
\* The direction (in steps of 30 degrees) of the vector the embedding model
\* returns for a text.
EmbedDir(name) ==
    CASE name = "ml" -> 0
      [] name = "ml?" -> 0
      [] name = "ai" -> 2
      [] name = "ai?" -> 1
      [] OTHER -> 6

\* how a call of the AsyncOpenAI client ends: answered, answered with a
\* vector of another length, refused by the backend ("error": a response
\* the client does not retry), or unanswered ("timeout": no response, a
\* broken connection or a 5xx, which the client retries)
EmbeddingOutcomes == { "ok", "wrong_length", "error", "timeout" }

ClientFailures == { "error", "timeout" }

\* AsyncOpenAI(base_url=..., api_key=...): the client is made without
\* max_retries, so it keeps the library's default and sends an unanswered
\* request again that many times before it raises.  The requests one call
\* of the client sends to the backend:
ClientRequests(request, outcome) ==
    IF outcome = "timeout"
    THEN [i \in 1 .. (1 + DEFAULT_MAX_RETRIES) |-> request]
    ELSE << request >>

\* response.data[0].embedding for an answered call
EmbeddingResponse(text, outcome) ==
    [dir |-> EmbedDir(text.txt),
     dim |-> IF outcome = "wrong_length" THEN EMBEDDING_DIMENSIONS - 1
             ELSE EMBEDDING_DIMENSIONS]

\* _get_embedding(text): whether it raises, the vector it returns, its steps
GetEmbedding(text, outcome) ==
    LET call == << "embeddings.create" >>
                  \o ClientRequests("POST /embeddings", outcome)
    IN  IF outcome \in ClientFailures
        THEN [raised |-> TRUE, embedding |-> EmbeddingResponse(text, outcome),
              trace |-> call \o << "embedding:error", "log.error" >>]
        ELSE [raised |-> FALSE, embedding |-> EmbeddingResponse(text, outcome),
              trace |-> IF EmbeddingResponse(text, outcome).dim # EMBEDDING_DIMENSIONS
                        THEN call \o << "log.warning:dimension" >>
                        ELSE call]

\* ------------------------------------------------------------------ pgvector
\* cosine of k * 30 degrees, fixed-point
Cos30(k) ==
    CASE k = 0 -> 100000
      [] k \in {1, 11} -> 86603
      [] k \in {2, 10} -> 50000
      [] k \in {3, 9} -> 0
      [] k \in {4, 8} -> -50000
      [] k \in {5, 7} -> -86603
      [] k = 6 -> -100000

\* embedding <=> q
CosineDistance(e, q) == SimScale - Cos30((e.dir - q.dir) % 12)

\* 1 - (embedding <=> q)
Similarity(e, q) == SimScale - CosineDistance(e, q)

\* a cast that accepts a value of any length
CastVectorUnchecked(e) == TRUE

\* value::vector(n) is rejected unless the value has n components
CastVectorOk(e) == e.dim = EMBEDDING_DIMENSIONS

\* ------------------------------------------------------------------- state
VARIABLES
    documents,      \* committed rows of table documents
    nextId,         \* next value of the documents id sequence
    graphVertices,  \* committed Document vertices of graph knowledge_graph
    documentNodes,  \* committed rows of table document_nodes
    openSessions,   \* sessions made by self.Session() and not yet closed
    req,            \* per request slot: the call in progress and its locals
    deleted,        \* history: the ids whose delete_document has returned
    completion,     \* lightrag-service: a call of lmstudio_completion_func
    lightrag,       \* lightrag-service: lightrag_instance, what it indexed, the last response
    chunking,       \* docling-service: a call of chunk_markdown_text
    sending,        \* docling-service: a call of send_chunks_to_rag
    qdrant          \* clear_qdrant.py: the collection and a call of clear_collection

\* the state of the other services of the platform
ServiceVars == << completion, lightrag, chunking, sending, qdrant >>

vars ==
    << documents, nextId, graphVertices, documentNodes, openSessions, req,
       deleted, ServiceVars >>

Has(trace, step) == \E i \in DOMAIN trace : trace[i] = step

NoAnswer == [kind |-> "none", context |-> None]
NoResult ==
    [kind |-> "none", doc_id |-> 0, answer |-> NoAnswer, sources |-> << >>,
     graph_context |-> None, stats |-> None, connected |-> None]

Idle ==
    [op |-> "none", pc |-> "idle", content |-> NoText, metadata |-> None,
     question |-> NoText, top_k |-> 0, use_graph |-> FALSE, threshold |-> 0,
     embedding |-> None, doc_id |-> 0, rows |-> << >>, seen |-> {},
     graph_context |-> None,
     context |-> None, trace |-> << >>, result |-> NoResult]

\* no call in progress in a service
NoCall == [pc |-> "none"]

\* the state after initialize(): an empty knowledge base, no request
Init ==
    /\ documents = {}
    /\ nextId = 1
    /\ graphVertices = {}
    /\ documentNodes = {}
    /\ openSessions = 0
    /\ req = [p \in Procs |-> Idle]
    /\ deleted = {}
    /\ completion = NoCall
    /\ lightrag = NoCall
    /\ chunking = NoCall
    /\ sending = NoCall
    /\ qdrant = NoCall

\* --------------------------------------------------------- ingest_document
StatementOutcomes == { "ok", "db_error" }

\* metadata.get('source', 'unknown')
MetaGet(metadata, key, default) ==
    IF \E kv \in metadata : kv[1] = key
    THEN (CHOOSE kv \in metadata : kv[1] = key)[2]
    ELSE default

\* text[:n]
Prefix(text, n) ==
    [txt |-> text.txt, len |-> Min(text.len, n), quotes |-> Min(text.quotes, n)]

\* text.replace("'", "''")
EscapeQuotes(text) ==
    [txt |-> text.txt, len |-> text.len + text.quotes, quotes |-> 2 * text.quotes]

\* _create_graph_nodes without its except clause: a failure propagates
CreateGraphNodesReraise(doc_id, content, metadata, create, link) ==
    LET source == MetaGet(metadata, "source", StrVal("unknown"))
        failed == source.type # "str" \/ create = "db_error" \/ link = "db_error"
        vertex == [doc_id |-> doc_id,
                   preview |-> EscapeQuotes(Prefix(content, PREVIEW_CHARS)),
                   source |-> source.val,
                   length |-> content.len]
        row == [document_id |-> doc_id, node_id |-> doc_id,
                node_type |-> "Document",
                properties |-> { <<"source", source>> }]
    IN  IF failed
        THEN [raised |-> TRUE, vertices |-> {}, rows |-> {}, aborted |-> TRUE,
              trace |-> << "graph:error" >>]
        ELSE [raised |-> FALSE, vertices |-> { vertex }, rows |-> { row },
              aborted |-> FALSE,
              trace |-> << "cypher CREATE", "INSERT document_nodes",
                           "log.info:graph" >>]

\* _create_graph_nodes(session, doc_id, content, metadata): whether it
\* raises, what it adds to the session's transaction, whether a statement
\* was rejected (which aborts the transaction), and its steps
CreateGraphNodes(doc_id, content, metadata, create, link) ==
    LET source == MetaGet(metadata, "source", StrVal("unknown"))
        vertex == [doc_id |-> doc_id,
                   preview |-> EscapeQuotes(Prefix(content, PREVIEW_CHARS)),
                   source |-> source.val,
                   length |-> content.len]
        row == [document_id |-> doc_id, node_id |-> doc_id,
                node_type |-> "Document",
                properties |-> { <<"source", source>> }]
    IN  IF source.type # "str"
        THEN \* .replace on a value that is no string: AttributeError
             [raised |-> FALSE, vertices |-> {}, rows |-> {}, aborted |-> FALSE,
              trace |-> << "graph:error", "log.warning:graph" >>]
        ELSE IF create = "db_error"
        THEN [raised |-> FALSE, vertices |-> {}, rows |-> {}, aborted |-> TRUE,
              trace |-> << "cypher CREATE", "graph:error", "log.warning:graph" >>]
        ELSE IF link = "db_error"
        THEN [raised |-> FALSE, vertices |-> { vertex }, rows |-> {},
              aborted |-> TRUE,
              trace |-> << "cypher CREATE", "INSERT document_nodes",
                           "graph:error", "log.warning:graph" >>]
        ELSE [raised |-> FALSE, vertices |-> { vertex }, rows |-> { row },
              aborted |-> FALSE,
              trace |-> << "cypher CREATE", "INSERT document_nodes",
                           "log.info:graph" >>]

\* a commit that keeps the writes made before the rejected statement
CommitPartial(table, written, aborted) == table \cup written

\* session.commit(): the table after the transaction's writes are
\* committed; COMMIT of an aborted transaction ends it as a rollback
Commit(table, written, aborted) ==
    IF aborted THEN table ELSE table \cup written

Returned(doc_id) == [NoResult EXCEPT !.kind = "returned", !.doc_id = doc_id]
Raised == [NoResult EXCEPT !.kind = "raised"]

\* the except clause of ingest_document without its raise
IngestExceptSwallow(r, trace) ==
    [r EXCEPT !.pc = "done",
              !.trace = trace \o << "rollback", "log.error", "close" >>,
              !.result = Returned(0)]

\* the except clause of ingest_document without its rollback
IngestExceptNoRollback(r, trace) ==
    [r EXCEPT !.pc = "done",
              !.trace = trace \o << "log.error", "close" >>,
              !.result = Raised]

\* the except and finally clauses of ingest_document: the request after an
\* exception reached them with the steps `trace` taken
IngestExcept(r, trace) ==
    [r EXCEPT !.pc = "done",
              !.trace = trace \o << "rollback", "log.error", "close" >>,
              !.result = Raised]

\* json.dumps(metadata): the JSON text of a mapping; a str becomes a JSON
\* string, an int a JSON number
JsonDumps(metadata) ==
    { << kv[1], [json |-> IF kv[2].type = "str" THEN "string" ELSE "number",
                 text |-> kv[2].val] >> : kv \in metadata }

\* a driver that hands every jsonb value back as a str
JsonbLoadsStrings(jsonb) ==
    { << kv[1], StrVal(kv[2].text) >> : kv \in jsonb }

\* the dict the driver makes of a fetched jsonb value: a JSON string becomes
\* a str, a JSON number an int
JsonbLoads(jsonb) ==
    { << kv[1], IF kv[2].json = "string" THEN StrVal(kv[2].text)
                ELSE IntVal(kv[2].text) >> : kv \in jsonb }

\* a sequence that hands out the same value again
NextValStuck(id) == id

\* the documents id sequence after it handed out id (INSERT ... RETURNING id)
NextVal(id) == id + 1

\* the slots with an ingest_document call in progress
Ingesting == { p \in Procs : req[p].pc = "ingest:embedding" }

\* ingest_document up to its first await: the session is made and the
\* embedding request is sent
IngestCall(p, content, metadata) ==
    /\ req[p].pc = "idle"
    /\ UNCHANGED ServiceVars
    /\ nextId + Cardinality(Ingesting) <= MaxDocs
    /\ req' = [req EXCEPT ![p] =
                  [Idle EXCEPT !.op = "ingest", !.pc = "ingest:embedding",
                               !.content = content, !.metadata = metadata,
                               !.trace = << "Session" >>]]
    /\ openSessions' = openSessions + 1
    /\ UNCHANGED << documents, nextId, graphVertices, documentNodes, deleted >>

\* an ingest_document that commits before it creates the graph nodes
IngestStepsCommitFirst(t, graph) ==
    t \o << "INSERT documents", "commit" >> \o graph \o << "log.info", "close" >>

\* the steps of an ingest_document that returns, after the steps t of its
\* embedding: the INSERT, _create_graph_nodes, session.commit(), the log
\* line and the finally clause
IngestSteps(t, graph) ==
    t \o << "INSERT documents" >> \o graph \o << "commit", "log.info", "close" >>

\* ingest_document from the embedding response to its return or raise
IngestResume(p, embed, insert, create, link) ==
    LET r == req[p]
        e == GetEmbedding(r.content, embed)
        \* embedding = await self._get_embedding(content) has returned
        s == [r EXCEPT !.embedding = Some(e.embedding)]
        metadata == IF r.metadata = None THEN {} ELSE r.metadata[1]
        t1 == r.trace \o e.trace
        inserted == insert = "ok" /\ CastVectorOk(e.embedding)
        doc_id == nextId
        row == [id |-> doc_id, content |-> r.content,
                embedding |-> Some(e.embedding),
                metadata |-> JsonDumps(metadata)]
        g == CreateGraphNodes(doc_id, r.content, metadata, create, link)
        t2 == t1 \o << "INSERT documents" >> \o g.trace
    IN
    /\ r.pc = "ingest:embedding"
    /\ UNCHANGED ServiceVars
    /\ openSessions' = openSessions - 1
    /\ UNCHANGED deleted
    /\ IF e.raised
       THEN /\ req' = [req EXCEPT ![p] = IngestExcept(r, t1)]
            /\ UNCHANGED << documents, nextId, graphVertices, documentNodes >>
       ELSE IF ~inserted
       THEN /\ req' = [req EXCEPT ![p] =
                         IngestExcept(s, t1 \o << "INSERT documents", "insert:error" >>)]
            /\ UNCHANGED << documents, nextId, graphVertices, documentNodes >>
       ELSE IF g.raised
       THEN \* the sequence value is spent, the row is rolled back
            /\ nextId' = NextVal(nextId)
            /\ req' = [req EXCEPT ![p] = IngestExcept([s EXCEPT !.doc_id = doc_id], t2)]
            /\ UNCHANGED << documents, graphVertices, documentNodes >>
       ELSE /\ nextId' = NextVal(nextId)
            /\ documents' = Commit(documents, { row }, g.aborted)
            /\ graphVertices' = Commit(graphVertices, g.vertices, g.aborted)
            /\ documentNodes' = Commit(documentNodes, g.rows, g.aborted)
            /\ req' = [req EXCEPT ![p] =
                         [s EXCEPT !.pc = "done",
                                   !.doc_id = doc_id,
                                   !.trace = IngestSteps(t1, g.trace),
                                   !.result = Returned(doc_id)]]

\* ------------------------------------------------------------------- query
\* the rows the SELECT's WHERE clause keeps
Matching(store, q, threshold) ==
    { d \in store : /\ d.embedding # None
                    /\ Similarity(d.embedding[1], q) >= threshold }

\* ORDER BY ... DESC: the farthest rows first
OrderByDistanceDesc(S, q) ==
    { s \in [1 .. Cardinality(S) -> S] :
        /\ \A i, j \in DOMAIN s : i # j => s[i] # s[j]
        /\ \A i, j \in DOMAIN s :
              i < j => CosineDistance(s[i].embedding[1], q)
                         >= CosineDistance(s[j].embedding[1], q) }

\* ORDER BY embedding <=> q: every order of the rows by ascending distance
\* (rows at the same distance come in any order)
OrderByDistance(S, q) ==
    { s \in [1 .. Cardinality(S) -> S] :
        /\ \A i, j \in DOMAIN s : i # j => s[i] # s[j]
        /\ \A i, j \in DOMAIN s :
              i < j => CosineDistance(s[i].embedding[1], q)
                         <= CosineDistance(s[j].embedding[1], q) }

\* the SELECT without its LIMIT
LimitIgnored(s, n) == s

\* LIMIT n
Limit(s, n) == SubSeq(s, 1, Min(Len(s), n))

\* the fetched row (id, content, metadata, similarity)
SelectRow(d, q) ==
    [id |-> d.id, content |-> d.content, metadata |-> JsonbLoads(d.metadata),
     similarity |-> Similarity(d.embedding[1], q)]

\* result.fetchall() of the similarity SELECT: the possible row lists
SimilaritySearch(store, q, threshold, limit) ==
    { [i \in DOMAIN Limit(s, limit) |-> SelectRow(s[i], q)] :
        s \in OrderByDistance(Matching(store, q, threshold), q) }

\* _get_graph_context without its except clause: a failure propagates
GetGraphContextReraise(rows, vertices, outcome) ==
    LET doc_ids == { rows[i].id : i \in DOMAIN rows }
        n == Min(Cardinality({ v \in vertices : v.doc_id \in doc_ids }),
                 GRAPH_ROW_LIMIT)
    IN  IF outcome = "db_error"
        THEN [raised |-> TRUE, value |-> None,
              trace |-> << "cypher MATCH", "lookup:error" >>]
        ELSE IF n = 0
        THEN [raised |-> FALSE, value |-> None, trace |-> << "cypher MATCH" >>]
        ELSE [raised |-> FALSE,
              value |-> Some([nodes_found |-> n, has_relationships |-> FALSE,
                              sample_nodes |-> n]),
              trace |-> << "cypher MATCH" >>]

\* _get_graph_context counting the documents it was given, not the rows
\* the graph returned
GetGraphContextCountsDocuments(rows, vertices, outcome) ==
    IF outcome = "db_error"
    THEN [raised |-> FALSE, value |-> None,
          trace |-> << "cypher MATCH", "lookup:error", "log.warning:graph" >>]
    ELSE [raised |-> FALSE,
          value |-> Some([nodes_found |-> Len(rows), has_relationships |-> FALSE,
                          sample_nodes |-> Len(rows)]),
          trace |-> << "cypher MATCH" >>]

\* _get_graph_context(session, documents): whether it raises, the summary
\* it returns (None when the lookup fails or finds nothing) and its steps
GetGraphContext(rows, vertices, outcome) ==
    LET doc_ids == { rows[i].id : i \in DOMAIN rows }
        matched == { v \in vertices : v.doc_id \in doc_ids }
        \* one row per vertex: the code creates no edges, so rel_type is null
        graph_data == { [doc |-> v, rel_type |-> None, related |-> None] :
                          v \in matched }
        n == Min(Cardinality(graph_data), GRAPH_ROW_LIMIT)
    IN  IF outcome = "db_error"
        THEN [raised |-> FALSE, value |-> None,
              trace |-> << "cypher MATCH", "lookup:error", "log.warning:graph" >>]
        ELSE IF n = 0
        THEN [raised |-> FALSE, value |-> None, trace |-> << "cypher MATCH" >>]
        ELSE [raised |-> FALSE,
              value |-> Some([nodes_found |-> n,
                              has_relationships |->
                                  \E g \in graph_data : g.rel_type # None,
                              sample_nodes |-> n]),
              trace |-> << "cypher MATCH" >>]

\* _build_context(documents, graph_context)
BuildContext(rows, graph_context) ==
    [header |-> "context header",
     entries |->
        [i \in DOMAIN rows |->
            [idx |-> i,
             relevance |-> rows[i].similarity,
             source_info |->
                 IF rows[i].metadata # {}
                 THEN Some(MetaGet(rows[i].metadata, "source",
                                   StrVal("neizvestno")))
                 ELSE None,
             content |-> rows[i].content]],
     graph_line |->
        IF graph_context # None /\ graph_context[1].nodes_found > 0
        THEN Some(graph_context[1].nodes_found)
        ELSE None]

\* round(x, 4) of a similarity: half to even, in units of 0.0001
Round4(x) ==
    LET q == x \div 10
        r == x % 10
    IN  IF r < 5 THEN q
        ELSE IF r > 5 THEN q + 1
        ELSE IF q % 2 = 0 THEN q ELSE q + 1

\* the "sources" list of the result
Sources(rows) ==
    [i \in DOMAIN rows |->
        [id |-> rows[i].id,
         content |-> Prefix(rows[i].content, SNIPPET_CHARS),
         similarity |-> Round4(rows[i].similarity),
         metadata |-> rows[i].metadata]]

NoResultsAnswer == [kind |-> "no_results", context |-> None]

GenerationOutcomes == { "ok", "error", "timeout" }

\* _generate_answer raising instead of returning the apology
GenerateAnswerReraise(context, outcome) ==
    LET call == << "chat.completions.create" >>
                  \o ClientRequests("POST /chat/completions", outcome)
    IN  IF outcome = "ok"
        THEN [raised |-> FALSE,
              answer |-> [kind |-> "generated", context |-> Some(context)],
              trace |-> call \o << "log.info" >>]
        ELSE [raised |-> TRUE,
              answer |-> [kind |-> "none", context |-> None],
              trace |-> call \o << "generation:error", "log.error" >>]

\* _generate_answer(question, context): whether it raises, the text it
\* returns (the model's answer to the prompt, or the apology that quotes
\* the error) and its steps
GenerateAnswer(context, outcome) ==
    LET call == << "chat.completions.create" >>
                  \o ClientRequests("POST /chat/completions", outcome)
    IN  IF outcome = "ok"
        THEN [raised |-> FALSE,
              answer |-> [kind |-> "generated", context |-> Some(context)],
              trace |-> call \o << "log.info" >>]
        ELSE [raised |-> FALSE,
              answer |-> [kind |-> "generation_error", context |-> None],
              trace |-> call \o << "generation:error", "log.error" >>]

QueryResult(answer, sources, graph_context) ==
    [NoResult EXCEPT !.kind = "returned", !.answer = answer,
                     !.sources = sources, !.graph_context = graph_context]

\* query without its early return
NoDocumentsNever(rows) == FALSE

\* if not documents
NoDocuments(rows) == rows = << >>

\* the except clause of query without its raise: the no-results answer
QueryExceptSwallow(r, trace) ==
    [r EXCEPT !.pc = "done",
              !.trace = trace \o << "log.error", "close" >>,
              !.result = QueryResult(NoResultsAnswer, << >>, None)]

\* the except and finally clauses of query
QueryExcept(r, trace) ==
    [r EXCEPT !.pc = "done",
              !.trace = trace \o << "log.error", "close" >>,
              !.result = Raised]

\* query up to its first await: the session is made and the embedding
\* request is sent
\* the graph lookup of query made whether or not use_graph is set
GraphLookupAlways(use_graph, rows, vertices, outcome) ==
    GetGraphContext(rows, vertices, outcome)

\* graph_context = None; if use_graph and documents: graph_context = await
\* self._get_graph_context(session, documents)
GraphLookup(use_graph, rows, vertices, outcome) ==
    IF use_graph /\ rows # << >>
    THEN GetGraphContext(rows, vertices, outcome)
    ELSE [raised |-> FALSE, value |-> None, trace |-> << >>]

QueryCall(p, question, top_k, use_graph, threshold) ==
    /\ req[p].pc = "idle"
    /\ UNCHANGED ServiceVars
    /\ req' = [req EXCEPT ![p] =
                  [Idle EXCEPT !.op = "query", !.pc = "query:embedding",
                               !.question = question, !.top_k = top_k,
                               !.use_graph = use_graph,
                               !.threshold = threshold,
                               !.trace = << "Session" >>]]
    /\ openSessions' = openSessions + 1
    /\ UNCHANGED << documents, nextId, graphVertices, documentNodes, deleted >>

\* query from the embedding response to the chat completion request (or to
\* its early return or raise)
QuerySearch(p, embed, select, lookup) ==
    LET r == req[p]
        e == GetEmbedding(r.question, embed)
        \* question_embedding = await self._get_embedding(question) has returned
        s == [r EXCEPT !.embedding = Some(e.embedding)]
        q == e.embedding
        t1 == r.trace \o e.trace
    IN
    /\ r.pc = "query:embedding"
    /\ UNCHANGED ServiceVars
    /\ UNCHANGED << documents, nextId, graphVertices, documentNodes, deleted >>
    /\ IF e.raised
       THEN /\ req' = [req EXCEPT ![p] = QueryExcept(r, t1)]
            /\ openSessions' = openSessions - 1
       ELSE IF ~(select = "ok" /\ CastVectorOk(q))
       THEN /\ req' = [req EXCEPT ![p] =
                         QueryExcept(s, t1 \o << "SELECT documents", "select:error" >>)]
            /\ openSessions' = openSessions - 1
       ELSE \E rows \in SimilaritySearch(documents, q, r.threshold, r.top_k) :
              LET t2 == t1 \o << "SELECT documents" >>
                  g == GraphLookup(r.use_graph, rows, graphVertices, lookup)
                  found == [s EXCEPT !.rows = rows, !.seen = documents]
              IN  IF NoDocuments(rows)
                  THEN /\ req' = [req EXCEPT ![p] =
                                    [found EXCEPT
                                       !.pc = "done",
                                       !.trace = t2 \o << "log.warning:empty", "close" >>,
                                       !.result = QueryResult(NoResultsAnswer, << >>, None)]]
                       /\ openSessions' = openSessions - 1
                  ELSE IF g.raised
                  THEN /\ req' = [req EXCEPT ![p] = QueryExcept(found, t2 \o g.trace)]
                       /\ openSessions' = openSessions - 1
                  ELSE /\ req' = [req EXCEPT ![p] =
                                    [found EXCEPT
                                       !.pc = "query:generation",
                                       !.graph_context = g.value,
                                       !.context = Some(BuildContext(rows, g.value)),
                                       !.trace = t2 \o g.trace \o << "build_context" >>]]
                       /\ UNCHANGED openSessions

\* query from the chat completion response to its return
QueryAnswer(p, generation) ==
    LET r == req[p]
        a == GenerateAnswer(r.context[1], generation)
    IN
    /\ r.pc = "query:generation"
    /\ UNCHANGED ServiceVars
    /\ req' = [req EXCEPT ![p] =
                 IF a.raised
                 THEN QueryExcept(r, r.trace \o a.trace)
                 ELSE [r EXCEPT
                         !.pc = "done",
                         !.trace = r.trace \o a.trace \o << "close" >>,
                         !.result = QueryResult(a.answer, Sources(r.rows),
                                                r.graph_context)]]
    /\ openSessions' = openSessions - 1
    /\ UNCHANGED << documents, nextId, graphVertices, documentNodes, deleted >>

\* --------------------------------------------------------- delete_document
\* the doc_id values callers pass
DocIds == 1 .. MaxDocs

\* delete_document without its rowcount check
NotFoundIgnored(rowcount) == FALSE

\* if result.rowcount == 0
NotFound(rowcount) == rowcount = 0

\* a DELETE that removes no row
DeleteWhereNothing(store, doc_id) == store

\* DELETE FROM documents WHERE id = :doc_id: the table it leaves
DeleteWhere(store, doc_id) == { d \in store : d.id # doc_id }

\* the except and finally clauses of delete_document
DeleteExcept(r, trace) ==
    [r EXCEPT !.pc = "done",
              !.trace = trace \o << "rollback", "log.error", "close" >>,
              !.result = Raised]

\* delete_document(doc_id): it awaits nothing, so it runs in one piece
DeleteDocument(p, doc_id, delete) ==
    LET r == [Idle EXCEPT !.op = "delete", !.doc_id = doc_id]
        hit == { d \in documents : d.id = doc_id }
        rowcount == Cardinality(hit)
        t1 == << "Session", "DELETE documents" >>
    IN
    /\ req[p].pc = "idle"
    /\ UNCHANGED ServiceVars
    /\ UNCHANGED << nextId, graphVertices, documentNodes, openSessions >>
    /\ IF delete = "db_error"
       THEN /\ req' = [req EXCEPT ![p] = DeleteExcept(r, t1 \o << "delete:error" >>)]
            /\ UNCHANGED << documents, deleted >>
       ELSE IF NotFound(rowcount)
       THEN \* the DELETE (of no row, here) is rolled back
            /\ req' = [req EXCEPT ![p] = DeleteExcept(r, t1 \o << "raise:not_found" >>)]
            /\ UNCHANGED << documents, deleted >>
       ELSE /\ documents' = DeleteWhere(documents, doc_id)
            /\ deleted' = deleted \cup { doc_id }
            /\ req' = [req EXCEPT ![p] =
                         [r EXCEPT !.pc = "done",
                                   !.trace = t1 \o << "commit", "log.info", "close" >>,
                                   !.result = [NoResult EXCEPT !.kind = "returned"]]]

\* ------------------------------------- get_documents_stats, check_db_connection
\* the row of view documents_stats: count, count with embedding, distinct
\* source count
DocumentsStats(store) ==
    [total_documents |-> Cardinality(store),
     documents_with_embeddings |->
         Cardinality({ d \in store : d.embedding # None }),
     unique_sources |->
         Cardinality({ kv[2] : kv \in { m \in UNION { d.metadata : d \in store } :
                                           m[1] = "source" } })]

\* get_documents_stats(): it awaits nothing; try ... finally: session.close()
GetDocumentsStats(p, select) ==
    LET r == [Idle EXCEPT !.op = "stats"]
        t1 == << "Session", "SELECT documents_stats" >>
    IN
    /\ req[p].pc = "idle"
    /\ UNCHANGED ServiceVars
    /\ req' = [req EXCEPT ![p] =
                 IF select = "db_error"
                 THEN [r EXCEPT !.pc = "done",
                                !.trace = t1 \o << "stats:error", "close" >>,
                                !.result = Raised]
                 ELSE [r EXCEPT !.pc = "done",
                                !.trace = t1 \o << "close" >>,
                                !.result =
                                    [NoResult EXCEPT
                                       !.kind = "returned",
                                       !.stats = Some(DocumentsStats(documents))]]]
    /\ UNCHANGED << documents, nextId, graphVertices, documentNodes, openSessions,
                    deleted >>

\* check_db_connection(): it awaits nothing; session.close() is the
\* statement after session.execute inside the try, so a failed SELECT 1
\* goes to the except clause past it
CheckDbConnection(p, select) ==
    LET r == [Idle EXCEPT !.op = "check_db"]
        t1 == << "Session", "SELECT 1" >>
    IN
    /\ req[p].pc = "idle"
    /\ UNCHANGED ServiceVars
    /\ IF select = "db_error"
       THEN /\ openSessions < MaxLeaked
            /\ openSessions' = openSessions + 1
            /\ req' = [req EXCEPT ![p] =
                         [r EXCEPT !.pc = "done",
                                   !.trace = t1 \o << "check:error", "log.error" >>,
                                   !.result = [NoResult EXCEPT
                                                 !.kind = "returned",
                                                 !.connected = Some(FALSE)]]]
       ELSE /\ UNCHANGED openSessions
            /\ req' = [req EXCEPT ![p] =
                         [r EXCEPT !.pc = "done",
                                   !.trace = t1 \o << "close" >>,
                                   !.result = [NoResult EXCEPT
                                                 !.kind = "returned",
                                                 !.connected = Some(TRUE)]]]
    /\ UNCHANGED << documents, nextId, graphVertices, documentNodes, deleted >>

\* the caller has its result (or exception); the slot takes the next request
Return(p) ==
    /\ req[p].pc = "done"
    /\ UNCHANGED ServiceVars
    /\ req' = [req EXCEPT ![p] = Idle]
    /\ UNCHANGED << documents, nextId, graphVertices, documentNodes, openSessions,
                    deleted >>

Next ==
    \/ \E p \in Procs, d \in Ingests : IngestCall(p, d[1], d[2])
    \/ \E p \in Procs, e \in EmbeddingOutcomes,
          i \in StatementOutcomes, c \in StatementOutcomes, l \in StatementOutcomes :
          IngestResume(p, e, i, c, l)
    \/ \E p \in Readers, q \in Questions, k \in TopKs, g \in BOOLEAN, t \in Thresholds :
          QueryCall(p, q, k, g, t)
    \/ \E p \in Procs, e \in EmbeddingOutcomes,
          s \in StatementOutcomes, l \in StatementOutcomes :
          QuerySearch(p, e, s, l)
    \/ \E p \in Procs, g \in GenerationOutcomes : QueryAnswer(p, g)
    \/ \E p \in Procs, d \in DocIds, o \in StatementOutcomes : DeleteDocument(p, d, o)
    \/ \E p \in Procs : Return(p)

Spec == Init /\ [][Next]_vars

\* the service with its statistics and health operations as well
NextSessions ==
    \/ Next
    \/ \E p \in Procs, s \in StatementOutcomes : GetDocumentsStats(p, s)
    \/ \E p \in Procs, s \in StatementOutcomes : CheckDbConnection(p, s)

SpecSessions == Init /\ [][NextSessions]_vars

\* One client that ingests and deletes, one that queries, and among the
\* questions one whose embedding points away from every document.
Writers == Procs \ Readers
Unrelated == Text("tax?", 9, 0)

NextRoundTrip ==
    \/ \E p \in Writers, d \in Ingests : IngestCall(p, d[1], d[2])
    \/ \E p \in Writers, e \in EmbeddingOutcomes,
          i \in StatementOutcomes, c \in StatementOutcomes, l \in StatementOutcomes :
          IngestResume(p, e, i, c, l)
    \/ \E p \in Readers, q \in Questions \cup { Unrelated }, k \in TopKs,
          g \in BOOLEAN, t \in Thresholds :
          QueryCall(p, q, k, g, t)
    \/ \E p \in Readers, e \in EmbeddingOutcomes,
          s \in StatementOutcomes, l \in StatementOutcomes :
          QuerySearch(p, e, s, l)
    \/ \E p \in Readers, g \in GenerationOutcomes : QueryAnswer(p, g)
    \/ \E p \in Writers, d \in DocIds, o \in StatementOutcomes : DeleteDocument(p, d, o)
    \/ \E p \in Procs : Return(p)

SpecRoundTrip == Init /\ [][NextRoundTrip]_vars

\* ------------------------------------------------------------------ claims
\* slot p holds a finished call of op, not yet handed to its caller
Finished(p, op) == req[p].op = op /\ req[p].pc = "done"

\* this step ends slot p's call of op
Completes(p, op) == req[p].pc # "done" /\ req'[p].pc = "done" /\ req'[p].op = op

StoreUnchanged ==
    /\ documents' = documents
    /\ graphVertices' = graphVertices
    /\ documentNodes' = documentNodes

\* C1: when the embedding request of ingest_document fails, the call raises,
\* no INSERT is issued, and the stored documents and graph nodes after the
\* call are those before it.
C1_EmbeddingFailureAbortsIngest ==
    [][\A p \in Procs :
          (Completes(p, "ingest") /\ Has(req'[p].trace, "embedding:error"))
          => /\ req'[p].result.kind = "raised"
             /\ ~Has(req'[p].trace, "INSERT documents")
             /\ StoreUnchanged]_vars

C1_Witness ==
    \E p \in Procs :
        /\ Finished(p, "ingest")
        /\ Has(req[p].trace, "embedding:error")
        /\ req[p].result.kind = "raised"
        /\ documents # {}

\* C2: when _create_graph_nodes fails at any of its statements, no exception
\* reaches the caller of ingest_document: the call returns the id the INSERT
\* returned.
C2_GraphFailureStillReturnsId ==
    [][\A p \in Procs :
          (Completes(p, "ingest") /\ Has(req'[p].trace, "graph:error"))
          => /\ req'[p].result.kind = "returned"
             /\ req'[p].result.doc_id = nextId
             /\ nextId' = nextId + 1]_vars

C2_Witness ==
    \E p \in Procs :
        /\ Finished(p, "ingest")
        /\ Has(req[p].trace, "INSERT document_nodes")
        /\ Has(req[p].trace, "graph:error")
        /\ req[p].result.kind = "returned"
        /\ req[p].result.doc_id >= 1

\* C3: a failed graph step does not roll back the document: when
\* ingest_document returns an id after _create_graph_nodes failed, the row
\* with that id is committed.
C3_GraphFailureKeepsDocument ==
    [][\A p \in Procs :
          (/\ Completes(p, "ingest")
           /\ Has(req'[p].trace, "graph:error")
           /\ req'[p].result.kind = "returned")
          => \E d \in documents' : d.id = req'[p].result.doc_id]_vars

\* C4: when the INSERT of ingest_document fails, the transaction is rolled
\* back, the call raises, _create_graph_nodes is not run, and nothing of the
\* call is stored.
C4_InsertFailureRollsBack ==
    [][\A p \in Procs :
          (Completes(p, "ingest") /\ Has(req'[p].trace, "insert:error"))
          => /\ req'[p].result.kind = "raised"
             /\ Has(req'[p].trace, "rollback")
             /\ ~Has(req'[p].trace, "cypher CREATE")
             /\ ~Has(req'[p].trace, "graph:error")
             /\ StoreUnchanged]_vars

C4_Witness ==
    \E p \in Procs :
        /\ Finished(p, "ingest")
        /\ Has(req[p].trace, "insert:error")
        /\ ~Has(req[p].trace, "log.warning:dimension")
        /\ req[p].result.kind = "raised"
        /\ documents # {}

\* the question's embedding of a query whose SELECT ran
QuestionEmbedding(p) == EmbeddingResponse(req[p].question, "ok")

\* slot p's query has run its similarity SELECT without an error
Searched(p) ==
    /\ req[p].op = "query"
    /\ Has(req[p].trace, "SELECT documents")
    /\ ~Has(req[p].trace, "select:error")

\* the stored documents that met the threshold when slot p's SELECT ran
Eligible(p) == Matching(req[p].seen, QuestionEmbedding(p), req[p].threshold)

\* C5: when the similarity search finds no document (nothing stored, or
\* nothing reaches similarity_threshold), query returns the fixed no-results
\* answer with no sources and a null graph_context, and has made neither a
\* chat completion call nor a graph lookup, whatever use_graph and top_k.
C5_NoDocumentsShortCircuit ==
    \A p \in Procs :
        (Searched(p) /\ Eligible(p) = {})
        => /\ req[p].pc = "done"
           /\ req[p].result = QueryResult(NoResultsAnswer, << >>, None)
           /\ ~Has(req[p].trace, "chat.completions.create")
           /\ ~Has(req[p].trace, "cypher MATCH")

C5_Witness ==
    \E p \in Procs :
        /\ Finished(p, "query")
        /\ Searched(p)
        /\ req[p].seen # {}
        /\ Eligible(p) = {}
        /\ req[p].use_graph
        /\ req[p].result.answer = NoResultsAnswer

\* C6: a query with top_k = k returns at most k sources, in order of
\* non-increasing similarity.
C6_SourcesBoundedAndSorted ==
    \A p \in Procs :
        (Finished(p, "query") /\ req[p].result.kind = "returned")
        => LET src == req[p].result.sources
           IN  /\ Len(src) <= req[p].top_k
               /\ \A i, j \in DOMAIN src :
                     i < j => src[i].similarity >= src[j].similarity

C6_Witness ==
    \E p \in Procs :
        /\ Finished(p, "query")
        /\ req[p].top_k = 2
        /\ Len(req[p].result.sources) = 2
        /\ req[p].result.sources[1].similarity > req[p].result.sources[2].similarity

\* C7: the sources of a query are the top_k best of the stored documents
\* with an embedding and similarity >= similarity_threshold: each source is
\* such a document, there are min(top_k, number of such documents) of them,
\* all different, and no such document left out is strictly more similar
\* than one returned.
C7_SourcesAreTopK ==
    \A p \in Procs :
        (Finished(p, "query") /\ req[p].result.kind = "returned")
        => LET src == req[p].result.sources
               q == QuestionEmbedding(p)
               Sim(id) == Similarity(
                   (CHOOSE d \in Eligible(p) : d.id = id).embedding[1], q)
               ids == { src[i].id : i \in DOMAIN src }
           IN  /\ \A i \in DOMAIN src : \E d \in Eligible(p) : d.id = src[i].id
               /\ Cardinality(ids) = Len(src)
               /\ Len(src) = Min(req[p].top_k, Cardinality(Eligible(p)))
               /\ \A d \in Eligible(p) :
                     d.id \notin ids
                     => \A id \in ids : Similarity(d.embedding[1], q) <= Sim(id)

C7_Witness ==
    \E p \in Procs :
        /\ Finished(p, "query")
        /\ req[p].top_k = 1
        /\ Len(req[p].result.sources) = 1
        /\ Cardinality(Eligible(p)) = 2
        /\ \E d \in Eligible(p) :
              Round4(Similarity(d.embedding[1], QuestionEmbedding(p)))
                < req[p].result.sources[1].similarity

C9_GraphLookupFailureIsNotFatal ==
    \A p \in Procs :
        (Finished(p, "query") /\ Has(req[p].trace, "lookup:error"))
        => /\ req[p].use_graph
           /\ req[p].rows # << >>
           /\ req[p].result.kind = "returned"
           /\ req[p].result.graph_context = None
           /\ req[p].rows \in SimilaritySearch(req[p].seen, QuestionEmbedding(p),
                                                req[p].threshold, req[p].top_k)
           /\ req[p].result.sources = Sources(req[p].rows)
           /\ req[p].context = Some(BuildContext(req[p].rows, None))
           /\ Has(req[p].trace, "build_context")
           /\ Has(req[p].trace, "chat.completions.create")
           /\ req[p].result.answer.kind = "generated"
              => req[p].result.answer.context = req[p].context

C9_Witness ==
    \E p \in Procs :
        /\ Finished(p, "query")
        /\ Has(req[p].trace, "lookup:error")
        /\ req[p].result.kind = "returned"
        /\ req[p].result.answer.kind = "generated"
        /\ Len(req[p].result.sources) = 2

\* C10: delete_document(id) for an id that matches no stored document
\* raises to the caller and leaves the stored documents unchanged.
C10_DeleteMissingRaises ==
    [][\A p \in Procs :
          (/\ Completes(p, "delete")
           /\ ~\E d \in documents : d.id = req'[p].doc_id)
          => /\ req'[p].result.kind = "raised"
             /\ documents' = documents]_vars

C10_Witness ==
    \E p \in Procs :
        /\ Finished(p, "delete")
        /\ Has(req[p].trace, "raise:not_found")
        /\ req[p].result.kind = "raised"
        /\ documents # {}

RowIds(rows) == { rows[i].id : i \in DOMAIN rows }

\* C11: once delete_document(d) has returned successfully, no query that
\* searches afterwards fetches d, and the sources a query returns are the
\* rows it fetched: d is in the sources of no later query, whatever its
\* question, top_k, use_graph and similarity_threshold.
C11_DeletedNeverInSources ==
    [][\A p \in Procs :
          /\ req[p].pc = "query:embedding"
                => RowIds(req'[p].rows) \cap deleted = {}
          /\ (Completes(p, "query") /\ req'[p].result.kind = "returned")
                => RowIds(req'[p].result.sources) \subseteq RowIds(req'[p].rows)]_vars

C11_Witness ==
    \E p \in Procs :
        /\ Finished(p, "query")
        /\ req[p].result.kind = "returned"
        /\ req[p].threshold = 0
        /\ req[p].result.sources # << >>
        /\ deleted # {}
        /\ \E d \in req[p].seen : d.id \notin deleted

\* C12: when ingest_document has returned an id (not deleted since) and a
\* query whose question has the embedding of the ingested content then runs
\* its similarity search with similarity_threshold 0, the search fetches
\* that document, for every top_k and whatever else is stored.  (A query
\* called after the ingest returned searches after it returned; the call
\* itself reads nothing of the store.)
C12_IngestedIsFound ==
    [][\A p, q \in Procs :
          (/\ Finished(q, "ingest")
           /\ req[q].result.kind = "returned"
           /\ req[q].result.doc_id \notin deleted
           /\ req[p].pc = "query:embedding"
           /\ req[p].threshold = 0
           /\ EmbeddingResponse(req[p].question, "ok")
                 = EmbeddingResponse(req[q].content, "ok")
           /\ Has(req'[p].trace, "SELECT documents")
           /\ ~Has(req'[p].trace, "select:error"))
          => req[q].result.doc_id \in RowIds(req'[p].rows)]_vars

\* the calls that have made their session and not yet reached their end
InProgress == { p \in Procs : req[p].pc \notin { "idle", "done" } }

\* C13: every operation that makes a session (ingest_document, query,
\* delete_document, get_documents_stats, check_db_connection) closes it on
\* every exit path: the open sessions are those of the calls in progress,
\* and none is open once every call has completed.
C13_SessionsClosedOnEveryPath == openSessions = Cardinality(InProgress)

DocumentIds == { d.id : d \in documents }

\* C14: a graph node goes when its document goes: in every state each
\* Document vertex of the graph and each document_nodes row refers to a
\* stored document.
C14_GraphNodesReferToDocuments ==
    /\ \A v \in graphVertices : v.doc_id \in DocumentIds
    /\ \A n \in documentNodes : n.document_id \in DocumentIds

\* slot p's ingest ran every one of its steps without an error
IngestClean(r) ==
    /\ ~Has(r.trace, "embedding:error")
    /\ ~Has(r.trace, "insert:error")
    /\ ~Has(r.trace, "graph:error")

\* C15: under every interleaving of ingest_document calls, a call that
\* returns gets the id the sequence holds at its INSERT, greater than the id
\* of every call that returned before it (so no two calls get one id); the
\* step that ends an ingest, failed or not, removes no stored document and
\* touches no other call; and an ingest whose own steps all succeed commits
\* its document whatever happened to the others.
C15_ConcurrentIngestsIndependent ==
    [][\A p \in Procs :
          Completes(p, "ingest")
          => /\ documents \subseteq documents'
             /\ \A q \in Procs \ { p } : req'[q] = req[q]
             /\ req'[p].result.kind = "returned"
                   => /\ req'[p].result.doc_id = nextId
                      /\ nextId' > nextId
                      /\ \A q \in Procs \ { p } :
                            (Finished(q, "ingest") /\ req[q].result.kind = "returned")
                            => req[q].result.doc_id < req'[p].result.doc_id
             /\ IngestClean(req'[p])
                   => /\ req'[p].result.kind = "returned"
                      /\ \E d \in documents' : d.id = req'[p].result.doc_id]_vars

C15_Witness ==
    \E p, q \in Procs :
        /\ p # q
        /\ Finished(p, "ingest")
        /\ req[p].result.kind = "raised"
        /\ Finished(q, "ingest")
        /\ req[q].result.kind = "returned"
        /\ req[q].result.doc_id = 2
        /\ IngestClean(req[q])
        /\ { d.id : d \in documents } = { 1, 2 }

\* C16: when the embedding backend answers ingest_document with a vector
\* whose length is not EMBEDDING_DIMENSIONS, the mismatch warning is logged,
\* the INSERT is rejected and the call raises; every stored embedding has
\* exactly EMBEDDING_DIMENSIONS components.
C16_WrongLengthNeverStored ==
    /\ \A d \in documents :
          d.embedding # None => d.embedding[1].dim = EMBEDDING_DIMENSIONS
    /\ \A p \in Procs :
          (/\ Finished(p, "ingest")
           /\ req[p].embedding # None
           /\ req[p].embedding[1].dim # EMBEDDING_DIMENSIONS)
          => /\ Has(req[p].trace, "log.warning:dimension")
             /\ Has(req[p].trace, "insert:error")
             /\ ~Has(req[p].trace, "commit")
             /\ req[p].result.kind = "raised"

C16_Witness ==
    \E p \in Procs :
        /\ Finished(p, "ingest")
        /\ req[p].embedding # None
        /\ req[p].embedding[1].dim # EMBEDDING_DIMENSIONS
        /\ Has(req[p].trace, "log.warning:dimension")
        /\ req[p].result.kind = "raised"

\* every occurrence of step b in the trace comes after an occurrence of a
Precedes(trace, a, b) ==
    \A j \in DOMAIN trace :
        trace[j] = b => \E i \in 1 .. (j - 1) : trace[i] = a

\* no occurrence of step b in the trace comes before an occurrence of a
NotBefore(trace, a, b) ==
    \A i, j \in DOMAIN trace : (trace[i] = a /\ trace[j] = b) => i < j

\* C17: the steps of one call happen in a fixed order.  ingest_document:
\* the embedding call, then the document INSERT, then graph-node creation,
\* then commit.  query: the embedding call, then the similarity search,
\* then the graph lookup, then context assembly, then the answer-generation
\* call.
C17_StepsInFixedOrder ==
    \A p \in Procs :
        LET t == req[p].trace IN
        /\ req[p].op = "ingest"
              => /\ Precedes(t, "embeddings.create", "INSERT documents")
                 /\ Precedes(t, "INSERT documents", "cypher CREATE")
                 /\ Precedes(t, "INSERT documents", "graph:error")
                 /\ Precedes(t, "cypher CREATE", "INSERT document_nodes")
                 /\ Precedes(t, "INSERT documents", "commit")
                 /\ NotBefore(t, "cypher CREATE", "commit")
                 /\ NotBefore(t, "INSERT document_nodes", "commit")
                 /\ NotBefore(t, "graph:error", "commit")
        /\ req[p].op = "query"
              => /\ Precedes(t, "embeddings.create", "SELECT documents")
                 /\ Precedes(t, "SELECT documents", "cypher MATCH")
                 /\ Precedes(t, "SELECT documents", "build_context")
                 /\ NotBefore(t, "cypher MATCH", "build_context")
                 /\ req[p].use_graph
                       => Precedes(t, "cypher MATCH", "build_context")
                 /\ Precedes(t, "build_context", "chat.completions.create")

C17_Witness ==
    /\ \E p \in Procs :
          /\ Finished(p, "ingest")
          /\ Has(req[p].trace, "INSERT document_nodes")
          /\ Has(req[p].trace, "commit")
    /\ \E p \in Procs :
          /\ Finished(p, "query")
          /\ Has(req[p].trace, "cypher MATCH")
          /\ Has(req[p].trace, "chat.completions.create")

\* C18: when the embedding request of query fails, query raises to its
\* caller and returns no result, and has run neither the similarity SELECT
\* nor the graph lookup nor the chat completion call.
C18_QueryEmbeddingFailureRaises ==
    \A p \in Procs :
        (req[p].op = "query" /\ Has(req[p].trace, "embedding:error"))
        => /\ req[p].pc = "done"
           /\ req[p].result = Raised
           /\ ~Has(req[p].trace, "SELECT documents")
           /\ ~Has(req[p].trace, "cypher MATCH")
           /\ ~Has(req[p].trace, "chat.completions.create")

C18_Witness ==
    \E p \in Procs :
        /\ Finished(p, "query")
        /\ Has(req[p].trace, "embedding:error")
        /\ req[p].result.kind = "raised"
        /\ req[p].use_graph
        /\ documents # {}

\* the steps that are calls to an external service
ExternalCalls ==
    { "embeddings.create", "chat.completions.create", "INSERT documents",
      "SELECT documents", "cypher CREATE", "INSERT document_nodes",
      "cypher MATCH", "DELETE documents", "commit" }

RECURSIVE CountCalls(_)
CountCalls(trace) ==
    IF trace = << >> THEN 0
    ELSE (IF Head(trace) \in ExternalCalls THEN 1 ELSE 0) + CountCalls(Tail(trace))

\* C19: every external call of ingest_document, query and delete_document
\* is a suspension point: a request completes at most one external call in
\* a step that no other request can interleave with, so its trace grows by
\* at most one external call per step.
C19_EveryExternalCallSuspends ==
    [][\A p \in Procs :
          CountCalls(req'[p].trace) <= CountCalls(req[p].trace) + 1]_vars

RECURSIVE Count(_, _)
Count(trace, step) ==
    IF trace = << >> THEN 0
    ELSE (IF Head(trace) = step THEN 1 ELSE 0) + Count(Tail(trace), step)

\* C20: within one ingest_document or query call the embedding backend
\* receives at most one request and the answer generator at most one: a
\* request that fails or times out is not sent again.
C20_BackendsInvokedAtMostOnce ==
    \A p \in Procs :
        /\ Count(req[p].trace, "POST /embeddings") <= 1
        /\ Count(req[p].trace, "POST /chat/completions") <= 1

\* the context a query has assembled (it keeps it to its end)
HasContext(p) == req[p].op = "query" /\ req[p].context # None

\* C21: the context block has, after the header, one entry per retrieved
\* document, numbered 1..n in retrieval order, and every entry carries a
\* source label: the 'source' of the document's metadata, or the word for
\* "unknown" when there is none, empty metadata included; the graph line is
\* there exactly when graph_context is not null.
C21_EveryEntryHasSourceLabel ==
    \A p \in Procs :
        HasContext(p)
        => LET c == req[p].context[1]
               rows == req[p].rows
           IN  /\ DOMAIN c.entries = DOMAIN rows
               /\ \A i \in DOMAIN rows :
                     /\ c.entries[i].idx = i
                     /\ c.entries[i].content = rows[i].content
                     /\ c.entries[i].source_info
                           = Some(MetaGet(rows[i].metadata, "source",
                                          StrVal("neizvestno")))
               /\ (c.graph_line # None) <=> (req[p].graph_context # None)

\* the Document vertices of the documents slot p's query retrieved
FoundNodes(p) == { v \in graphVertices : v.doc_id \in RowIds(req[p].rows) }

VerticesOf(id) == { v \in graphVertices : v.doc_id = id }
LinksOf(id) == { n \in documentNodes : n.document_id = id }

\* C23: every stored document has at most one graph node; a document whose
\* ingest ran its graph step without a failure has exactly one, vertex and
\* document_nodes link both; a graph step that failed, part-way included,
\* has left neither a vertex nor a link.
C23_OneGraphNodePerDocument ==
    /\ \A d \in documents :
          /\ Cardinality(VerticesOf(d.id)) <= 1
          /\ Cardinality(LinksOf(d.id)) <= 1
          /\ Cardinality(VerticesOf(d.id)) = Cardinality(LinksOf(d.id))
    /\ \A p \in Procs :
          (Finished(p, "ingest") /\ Has(req[p].trace, "INSERT documents")
             /\ ~Has(req[p].trace, "insert:error"))
          => IF Has(req[p].trace, "graph:error")
             THEN VerticesOf(req[p].doc_id) = {} /\ LinksOf(req[p].doc_id) = {}
             ELSE /\ Cardinality(VerticesOf(req[p].doc_id)) = 1
                  /\ Cardinality(LinksOf(req[p].doc_id)) = 1

C23_Witness ==
    /\ \E p \in Procs :
          /\ Finished(p, "ingest")
          /\ Has(req[p].trace, "INSERT document_nodes")
          /\ Has(req[p].trace, "graph:error")
          /\ req[p].doc_id = 2
    /\ \E d \in documents : Cardinality(VerticesOf(d.id)) = 1

\* the metadata slot q's ingest_document was called with, None as {}
IngestedMetadata(q) == IF req[q].metadata = None THEN {} ELSE req[q].metadata[1]

\* slot p's query searched a store of one document with top_k = 1,
\* use_graph = false and similarity_threshold = 0.0, and has ended
SingleDocumentQuery(p) ==
    /\ Finished(p, "query")
    /\ Searched(p)
    /\ Cardinality(req[p].seen) = 1
    /\ req[p].top_k = 1
    /\ ~req[p].use_graph
    /\ req[p].threshold = 0

\* every sources entry of slot p's result for a document some finished
\* ingest returned carries the metadata that ingest was called with
SourcesCarryIngestedMetadata(p) ==
    \A i \in DOMAIN req[p].result.sources, q \in Procs :
        (/\ Finished(q, "ingest")
         /\ req[q].result.kind = "returned"
         /\ req[q].result.doc_id = req[p].result.sources[i].id)
        => req[p].result.sources[i].metadata = IngestedMetadata(q)

\* slot p's query returned exactly one source: the stored document, with
\* its id and metadata
ReturnsTheDocument(p) ==
    /\ req[p].result.kind = "returned"
    /\ Len(req[p].result.sources) = 1
    /\ \A d \in req[p].seen :
          /\ req[p].result.sources[1].id = d.id
          /\ req[p].result.sources[1].metadata = JsonbLoads(d.metadata)

\* C24 as stated: metadata round-trips through ingest and query (no
\* metadata comes back as the empty mapping), and with a single stored
\* document a query with top_k = 1, use_graph = false and
\* similarity_threshold = 0.0 returns exactly one source, with that
\* document's id and metadata.
C24_MetadataRoundTrip ==
    \A p \in Procs :
        /\ Finished(p, "query") => SourcesCarryIngestedMetadata(p)
        /\ SingleDocumentQuery(p) => ReturnsTheDocument(p)

\* C24 amended: as stated, for a stored document whose similarity to the
\* question is not negative.
C24_RoundTripOfNonNegativeSimilarity ==
    \A p \in Procs :
        /\ Finished(p, "query") => SourcesCarryIngestedMetadata(p)
        /\ (/\ SingleDocumentQuery(p)
            /\ \A d \in req[p].seen :
                  Similarity(d.embedding[1], QuestionEmbedding(p)) >= 0)
           => ReturnsTheDocument(p)

C24_Witness ==
    \E p, q \in Procs :
        /\ SingleDocumentQuery(p)
        /\ Len(req[p].result.sources) = 1
        /\ Finished(q, "ingest")
        /\ req[q].result.kind = "returned"
        /\ req[q].result.doc_id = req[p].result.sources[1].id
        /\ req[q].metadata = Some({ <<"source", IntVal("7")>> })
        /\ req[p].result.sources[1].metadata = { <<"source", IntVal("7")>> }

\* slot p takes a step of a query in this transition
QueryStep(p) == req'[p].op = "query" /\ req'[p] # req[p]

\* C25: a query with use_graph = false never accesses the graph store and
\* returns graph_context = null; no step of a query, graph lookup included,
\* changes the stored documents or graph nodes.
C25_QueryReadsOnly ==
    [][\A p \in Procs :
          QueryStep(p)
          => /\ StoreUnchanged
             /\ ~req'[p].use_graph
                => /\ ~Has(req'[p].trace, "cypher MATCH")
                   /\ req'[p].graph_context = None
                   /\ (req'[p].pc = "done" /\ req'[p].result.kind = "returned")
                      => req'[p].result.graph_context = None]_vars

C25_Witness ==
    \E p \in Procs :
        /\ Finished(p, "query")
        /\ ~req[p].use_graph
        /\ req[p].result.kind = "returned"
        /\ Len(req[p].result.sources) >= 1
        /\ req[p].result.graph_context = None
        /\ \E v \in graphVertices : v.doc_id = req[p].result.sources[1].id
        /\ documents = req[p].seen

\* ---- lightrag-service: lmstudio_completion_func ----

\* A str is the sequence of its characters.
MaxWords == 2

\* str.lower() on the letters A to Z; every other character is kept
LowerOf ==
    "A" :> "a" @@ "B" :> "b" @@ "C" :> "c" @@ "D" :> "d" @@ "E" :> "e" @@ "F" :> "f" @@ "G" :> "g" @@
    "H" :> "h" @@ "I" :> "i" @@ "J" :> "j" @@ "K" :> "k" @@ "L" :> "l" @@ "M" :> "m" @@ "N" :> "n" @@
    "O" :> "o" @@ "P" :> "p" @@ "Q" :> "q" @@ "R" :> "r" @@ "S" :> "s" @@ "T" :> "t" @@ "U" :> "u" @@
    "V" :> "v" @@ "W" :> "w" @@ "X" :> "x" @@ "Y" :> "y" @@ "Z" :> "z"

Lower(c) == IF c \in DOMAIN LowerOf THEN LowerOf[c] ELSE c

StrLower(s) == [i \in DOMAIN s |-> Lower(s[i])]

\* keyword in s
In(keyword, s) ==
    \E i \in 1 .. (Len(s) - Len(keyword) + 1) :
        SubSeq(s, i, i + Len(keyword) - 1) = keyword

\* the keyword list of lmstudio_completion_func
Keywords ==
    << << "e", "x", "t", "r", "a", "c", "t" >>,
       << "e", "n", "t", "i", "t", "y" >>,
       << "r", "e", "l", "a", "t", "i", "o", "n" >>,
       << "e", "n", "t", "i", "t", "y" >>,
       << "r", "e", "l", "a", "t", "i", "o", "n", "s", "h", "i", "p" >>,
       << "k", "n", "o", "w", "l", "e", "d", "g", "e" >> >>

\* the text appended to an extraction prompt, as one character
StrictDirective == << "[extract only what the text states]" >>

\* the check without lower()
IsExtractionPromptCaseSensitive(system_prompt) ==
    \E k \in DOMAIN Keywords : In(Keywords[k], system_prompt)

\* any(keyword in prompt_lower for keyword in [...])
IsExtractionPrompt(system_prompt) ==
    LET prompt_lower == StrLower(system_prompt)
    IN  \E k \in DOMAIN Keywords : In(Keywords[k], prompt_lower)

\* the messages lmstudio_completion_func sends
Messages(prompt, system_prompt) ==
    LET system ==
            IF system_prompt # None /\ system_prompt[1] # << >>
            THEN << [role |-> "system",
                     content |-> IF IsExtractionPrompt(system_prompt[1])
                                 THEN system_prompt[1] \o StrictDirective
                                 ELSE system_prompt[1]] >>
            ELSE << >>
    IN  system \o << [role |-> "user", content |-> prompt] >>

\* words a system prompt is written with, each marked by whether it names
\* extraction, entities, relations or knowledge
PromptWords ==
    { [text |-> << "E", "x", "t", "r", "a", "c", "t" >>, extraction |-> TRUE],
      [text |-> << "E", "N", "T", "I", "T", "Y" >>, extraction |-> TRUE],
      [text |-> << "r", "e", "l", "a", "t", "i", "o", "n", "s" >>, extraction |-> TRUE],
      [text |-> << "K", "n", "o", "w", "l", "e", "d", "g", "e" >>, extraction |-> TRUE],
      [text |-> << "r", "e", "l", "a", "t", "e" >>, extraction |-> FALSE],
      [text |-> << "s", "u", "m", "m", "a", "r", "i", "z", "e" >>, extraction |-> FALSE],
      [text |-> << "k", "n", "o", "w" >>, extraction |-> FALSE],
      [text |-> << "l", "e", "d", "g", "e" >>, extraction |-> FALSE] }

Space == << " " >>

RECURSIVE Join(_)
Join(words) ==
    IF words = << >> THEN << >>
    ELSE IF Len(words) = 1 THEN words[1].text
    ELSE words[1].text \o Space \o Join(Tail(words))

WordLists == UNION { [1 .. n -> PromptWords] : n \in 0 .. MaxWords }

UserPrompts == { << >>, << "h", "i" >>, << "E", "x", "t", "r", "a", "c", "t" >> }

CompletionOutcomes == { "ok", "error" }

InitCompletion ==
    /\ documents = {}
    /\ nextId = 1
    /\ graphVertices = {}
    /\ documentNodes = {}
    /\ openSessions = 0
    /\ req = [p \in Procs |-> Idle]
    /\ deleted = {}
    /\ lightrag = NoCall
    /\ chunking = NoCall
    /\ sending = NoCall
    /\ qdrant = NoCall
    /\ \E prompt \in UserPrompts, given \in BOOLEAN, words \in WordLists :
          /\ given \/ words = << >>
          /\ completion =
                [pc |-> "called", prompt |-> prompt, words |-> words,
                 system_prompt |-> IF given THEN Some(Join(words)) ELSE None,
                 messages |-> << >>, result |-> "none"]

\* lmstudio_completion_func(prompt, system_prompt) up to its return or raise
LmstudioCompletion(outcome) ==
    /\ completion.pc = "called"
    /\ completion' =
          [completion EXCEPT
             !.pc = "done",
             !.messages = Messages(completion.prompt, completion.system_prompt),
             !.result = IF outcome = "ok" THEN "returned" ELSE "raised"]
    /\ UNCHANGED << documents, nextId, graphVertices, documentNodes, openSessions,
                    req, deleted, lightrag, chunking, sending, qdrant >>

NextCompletion == \E o \in CompletionOutcomes : LmstudioCompletion(o)

SpecCompletion == InitCompletion /\ [][NextCompletion]_vars

\* the call of lmstudio_completion_func has sent its messages
Sent == completion.pc = "done"

\* some word of the system prompt names extraction, entities, relations or
\* knowledge, in any letter case
NamesExtraction ==
    \E i \in DOMAIN completion.words : completion.words[i].extraction

\* C26: lmstudio_completion_func appends the strictness directive to the
\* system message exactly when a non-empty system_prompt, lower-cased,
\* contains one of the keywords, and otherwise sends the system prompt
\* unchanged; without a system_prompt there is no system message; the user
\* prompt is always the last message.
C26_DirectiveOnExtractionPrompts ==
    Sent =>
      LET m == completion.messages
          sp == completion.system_prompt
      IN  /\ Len(m) >= 1
          /\ m[Len(m)] = [role |-> "user", content |-> completion.prompt]
          /\ \A i \in 1 .. (Len(m) - 1) : m[i].role = "system"
          /\ (sp = None \/ sp = Some(<< >>)) <=> Len(m) = 1
          /\ Len(m) <= 2
          /\ Len(m) = 2 =>
                m[1].content = IF NamesExtraction
                               THEN sp[1] \o StrictDirective
                               ELSE sp[1]

C26_Witness ==
    /\ Sent
    /\ Len(completion.messages) = 2
    /\ Len(completion.words) = 2
    /\ completion.words[1].text = << "k", "n", "o", "w" >>
    /\ completion.words[2].text = << "E", "N", "T", "I", "T", "Y" >>
    /\ completion.messages[1].content = completion.system_prompt[1] \o StrictDirective

\* ---- lightrag-service: POST /insert ----

MaxTextLen == 3
MaxIndexed == 2

Whitespace == { " ", "\n", "\t" }

TextChars == { " ", "\n", "a" }

Texts == UNION { [1 .. n -> TextChars] : n \in 0 .. MaxTextLen }

RECURSIVE LStrip(_)
LStrip(s) ==
    IF s # << >> /\ Head(s) \in Whitespace THEN LStrip(Tail(s)) ELSE s

RECURSIVE RStrip(_)
RStrip(s) ==
    IF s # << >> /\ s[Len(s)] \in Whitespace
    THEN RStrip(SubSeq(s, 1, Len(s) - 1))
    ELSE s

\* str.strip()
Strip(s) == RStrip(LStrip(s))

NoResponse == [status_code |-> 0, text |-> << >>, trace |-> << >>]

\* the module as imported: lightrag_instance is None
InitLightRAG ==
    /\ documents = {}
    /\ nextId = 1
    /\ graphVertices = {}
    /\ documentNodes = {}
    /\ openSessions = 0
    /\ req = [p \in Procs |-> Idle]
    /\ deleted = {}
    /\ completion = NoCall
    /\ lightrag = [instance |-> FALSE, indexed |-> << >>, response |-> NoResponse]
    /\ chunking = NoCall
    /\ sending = NoCall
    /\ qdrant = NoCall

\* startup_event: initialize_lightrag()
StartupEvent ==
    /\ ~lightrag.instance
    /\ lightrag' = [lightrag EXCEPT !.instance = TRUE]
    /\ UNCHANGED << documents, nextId, graphVertices, documentNodes, openSessions,
                    req, deleted, completion, chunking, sending, qdrant >>

\* the response FastAPI makes of an HTTPException
HTTPException(status_code, text, trace) ==
    [status_code |-> status_code, text |-> text, trace |-> trace]

\* except Exception as e: raise HTTPException(status_code=500, ...), for
\* whatever was raised in the try block
InsertExcept(text, trace) ==
    HTTPException(500, text, trace \o << "log.error", "HTTPException(500)" >>)

\* insert_document(document)
InsertDocument(text, ainsert) ==
    LET text_to_index == Strip(text)
    IN
    /\ lightrag.instance /\ text_to_index # << >> /\ ainsert = "ok"
       => Len(lightrag.indexed) < MaxIndexed
    /\ UNCHANGED << documents, nextId, graphVertices, documentNodes, openSessions,
                    req, deleted, completion, chunking, sending, qdrant >>
    /\ IF ~lightrag.instance
       THEN lightrag' =
              [lightrag EXCEPT
                 !.response = HTTPException(503, text, << "HTTPException(503)" >>)]
       ELSE IF text_to_index = << >>
       THEN lightrag' =
              [lightrag EXCEPT
                 !.response = InsertExcept(text, << "HTTPException(400)" >>)]
       ELSE IF ainsert = "error"
       THEN lightrag' =
              [lightrag EXCEPT
                 !.response = InsertExcept(text, << "ainsert", "ainsert:error" >>)]
       ELSE lightrag' =
              [lightrag EXCEPT
                 !.indexed = Append(@, text_to_index),
                 !.response = [status_code |-> 200, text |-> text,
                               trace |-> << "ainsert" >>]]

IndexingOutcomes == { "ok", "error" }

NextLightRAG ==
    \/ StartupEvent
    \/ \E text \in Texts, o \in IndexingOutcomes : InsertDocument(text, o)

SpecLightRAG == InitLightRAG /\ [][NextLightRAG]_vars

\* every character of the text is whitespace
Blank(text) == \A i \in DOMAIN text : text[i] \in Whitespace

\* C27: POST /insert with a text that is empty after stripping whitespace
\* is answered with status 400 and indexes nothing; with lightrag_instance
\* uninitialised it is answered with status 503; status 500 is the answer
\* only when indexing failed.
C27_InsertStatusCodes ==
    [][lightrag'.response # lightrag.response
       => LET r == lightrag'.response IN
          /\ ~lightrag.instance => r.status_code = 503
          /\ (lightrag.instance /\ Blank(r.text))
             => /\ r.status_code = 400
                /\ lightrag'.indexed = lightrag.indexed
          /\ r.status_code = 500 => Has(r.trace, "ainsert:error")]_vars

\* ---- docling-service: chunk_markdown_text ----

CHUNK_SIZE_TOKENS == 128
CHUNK_OVERLAP_TOKENS == 30
MaxLines == 4

\* A line of the text is the number of tokens encoding.encode gives for it.
LineTokens == { 0, 30, 64, 128, 200 }

Line(n) == [tokens |-> n]

\* text.split('\n'): at least one line, the empty line for the empty text
LineLists == UNION { [1 .. n -> { Line(t) : t \in LineTokens }] : n \in 1 .. MaxLines }

\* len(encoding.encode(line))
Tokens(line) == line.tokens

\* the lines from the end of current_chunk that fit into CHUNK_OVERLAP_TOKENS
RECURSIVE OverlapLines(_, _, _)
OverlapLines(current_chunk, overlap_lines, overlap_tokens) ==
    IF current_chunk = << >> THEN overlap_lines
    ELSE LET overlap_line == current_chunk[Len(current_chunk)]
             overlap_line_tokens == Tokens(overlap_line)
         IN  IF overlap_tokens + overlap_line_tokens <= CHUNK_OVERLAP_TOKENS
             THEN OverlapLines(SubSeq(current_chunk, 1, Len(current_chunk) - 1),
                               << overlap_line >> \o overlap_lines,
                               overlap_tokens + overlap_line_tokens)
             ELSE overlap_lines

RECURSIVE SumTokens(_)
SumTokens(lines) ==
    IF lines = << >> THEN 0 ELSE Tokens(Head(lines)) + SumTokens(Tail(lines))

Chunk(current_chunk, metadata, chunk_index, current_tokens) ==
    [content |-> current_chunk, metadata |-> metadata, chunk_index |-> chunk_index,
     chunk_tokens |-> current_tokens, total_chunks |-> None]

\* the for loop over the lines, then the last chunk
RECURSIVE ChunkLines(_, _, _, _, _, _)
ChunkLines(lines, metadata, chunks, current_chunk, current_tokens, chunk_index) ==
    IF lines = << >>
    THEN IF current_chunk # << >>
         THEN Append(chunks, Chunk(current_chunk, metadata, chunk_index, current_tokens))
         ELSE chunks
    ELSE LET line == Head(lines)
             line_tokens == Tokens(line)
         IN  IF current_tokens + line_tokens > CHUNK_SIZE_TOKENS /\ current_chunk # << >>
             THEN LET overlap_lines == OverlapLines(current_chunk, << >>, 0)
                      overlap_tokens == SumTokens(overlap_lines)
                  IN  ChunkLines(Tail(lines), metadata,
                                 Append(chunks, Chunk(current_chunk, metadata,
                                                      chunk_index, current_tokens)),
                                 Append(overlap_lines, line),
                                 overlap_tokens + line_tokens,
                                 chunk_index + 1)
             ELSE ChunkLines(Tail(lines), metadata, chunks,
                             Append(current_chunk, line),
                             current_tokens + line_tokens,
                             chunk_index)

\* chunk_markdown_text(text, metadata); tiktoken says whether the encoding
\* could be loaded
ChunkMarkdownText(lines, metadata, tiktoken) ==
    IF tiktoken = "error"
    THEN << [content |-> lines, metadata |-> metadata, chunk_index |-> 0,
             total_chunks |-> Some(1), chunking_error |-> "error"] >>
    ELSE LET chunks == ChunkLines(lines, metadata, << >>, << >>, 0, 0)
             total_chunks == Len(chunks)
         IN  [i \in DOMAIN chunks |->
                [chunks[i] EXCEPT !.total_chunks = Some(total_chunks)]]

EncodingOutcomes == { "ok", "error" }

InitChunking ==
    /\ documents = {}
    /\ nextId = 1
    /\ graphVertices = {}
    /\ documentNodes = {}
    /\ openSessions = 0
    /\ req = [p \in Procs |-> Idle]
    /\ deleted = {}
    /\ completion = NoCall
    /\ lightrag = NoCall
    /\ sending = NoCall
    /\ qdrant = NoCall
    /\ \E lines \in LineLists :
          chunking = [pc |-> "called", lines |-> lines, metadata |-> "report.pdf",
                      tiktoken |-> "none", chunks |-> << >>]

ChunkMarkdown(tiktoken) ==
    /\ chunking.pc = "called"
    /\ chunking' =
          [chunking EXCEPT
             !.pc = "done",
             !.tiktoken = tiktoken,
             !.chunks = ChunkMarkdownText(chunking.lines, chunking.metadata, tiktoken)]
    /\ UNCHANGED << documents, nextId, graphVertices, documentNodes, openSessions,
                    req, deleted, completion, lightrag, sending, qdrant >>

NextChunking == \E o \in EncodingOutcomes : ChunkMarkdown(o)

SpecChunking == InitChunking /\ [][NextChunking]_vars

\* chunk_markdown_text has returned the chunks it cut with the encoding
Chunked == chunking.pc = "done" /\ chunking.tiktoken = "ok"

\* C28: for every input whose lines each have at most CHUNK_SIZE_TOKENS
\* tokens, every chunk chunk_markdown_text returns has chunk_tokens <=
\* CHUNK_SIZE_TOKENS, the chunk_index values are 0 .. n-1 in order, and
\* every chunk's total_chunks is n.
C28_ChunksWithinLimit ==
    (/\ Chunked
     /\ \A i \in DOMAIN chunking.lines :
           Tokens(chunking.lines[i]) <= CHUNK_SIZE_TOKENS)
    => LET chunks == chunking.chunks IN
       \A i \in DOMAIN chunks :
           /\ chunks[i].chunk_tokens <= CHUNK_SIZE_TOKENS
           /\ chunks[i].chunk_index = i - 1
           /\ chunks[i].total_chunks = Some(Len(chunks))

\* ---- docling-service: send_chunks_to_rag ----

MaxChunks == 3

\* the chunks of a document as chunk_markdown_text numbers them
ChunkList(n) == [i \in 1 .. n |-> [content |-> i, metadata |-> [chunk_index |-> i - 1]]]

\* what requests.post gives: a response with a status code, or an exception
Response(status_code) == [raised |-> FALSE, status_code |-> status_code]
Timeout == [raised |-> TRUE, status_code |-> 0]

PostOutcomes == { Response(200), Response(201), Response(422), Response(500), Timeout }

\* response.status_code in [200, 201], for a post that raised nothing
Accepted(outcome) == ~outcome.raised /\ outcome.status_code \in { 200, 201 }

NoResults(document_id, chunks) ==
    [document_id |-> document_id, total_chunks |-> Len(chunks),
     successful |-> 0, failed |-> 0, errors |-> << >>]

\* the body of the loop that counts a failure without recording its error
CountOutcomeWithoutError(results, i, outcome) ==
    IF Accepted(outcome)
    THEN [results EXCEPT !.successful = @ + 1]
    ELSE [results EXCEPT !.failed = @ + 1]

\* the body of the loop after requests.post, for chunk i (from 0)
CountOutcome(results, i, outcome) ==
    IF Accepted(outcome)
    THEN [results EXCEPT !.successful = @ + 1]
    ELSE [results EXCEPT
            !.failed = @ + 1,
            !.errors = Append(@, [chunk |-> i + 1, error |-> outcome])]

InitSending ==
    /\ documents = {}
    /\ nextId = 1
    /\ graphVertices = {}
    /\ documentNodes = {}
    /\ openSessions = 0
    /\ req = [p \in Procs |-> Idle]
    /\ deleted = {}
    /\ completion = NoCall
    /\ lightrag = NoCall
    /\ chunking = NoCall
    /\ qdrant = NoCall
    /\ \E n \in 0 .. MaxChunks :
          sending = [pc |-> "loop", chunks |-> ChunkList(n), document_id |-> "doc",
                     i |-> 0, posted |-> << >>,
                     results |-> NoResults("doc", ChunkList(n)),
                     returned |-> None]

\* one iteration of for i, chunk in enumerate(chunks)
PostChunk(outcome) ==
    /\ sending.pc = "loop"
    /\ sending.i < Len(sending.chunks)
    /\ LET chunk == sending.chunks[sending.i + 1]
       IN  sending' =
             [sending EXCEPT
                !.i = @ + 1,
                !.posted = Append(@, [content |-> chunk.content,
                                      chunk_index |-> chunk.metadata.chunk_index,
                                      document_id |-> sending.document_id]),
                !.results = CountOutcome(@, sending.i, outcome)]
    /\ UNCHANGED << documents, nextId, graphVertices, documentNodes, openSessions,
                    req, deleted, completion, lightrag, chunking, qdrant >>

\* return results
SendReturn ==
    /\ sending.pc = "loop"
    /\ sending.i = Len(sending.chunks)
    /\ sending' = [sending EXCEPT !.pc = "done", !.returned = Some(sending.results)]
    /\ UNCHANGED << documents, nextId, graphVertices, documentNodes, openSessions,
                    req, deleted, completion, lightrag, chunking, qdrant >>

NextSending ==
    \/ \E o \in PostOutcomes : PostChunk(o)
    \/ SendReturn

SpecSending == InitSending /\ [][NextSending]_vars

\* C29: send_chunks_to_rag posts every chunk exactly once, in input order,
\* whatever happened to the chunks before it; when it returns, successful +
\* failed = total_chunks = the number of chunks, and errors has one entry per
\* failed chunk.
C29_EveryChunkSentOnce ==
    /\ sending.pc \in { "loop", "done" }
       => /\ Len(sending.posted) = sending.i
          /\ \A k \in DOMAIN sending.posted :
                sending.posted[k].content = sending.chunks[k].content
    /\ sending.pc = "done"
       => LET results == sending.returned[1] IN
          /\ Len(sending.posted) = Len(sending.chunks)
          /\ results.successful + results.failed = results.total_chunks
          /\ results.total_chunks = Len(sending.chunks)
          /\ Len(results.errors) = results.failed
          /\ \A j, k \in DOMAIN results.errors :
                j < k => results.errors[j].chunk < results.errors[k].chunk

C29_Witness ==
    /\ sending.pc = "done"
    /\ Len(sending.chunks) = 3
    /\ Len(sending.posted) = 3
    /\ sending.returned[1].failed = 2
    /\ sending.returned[1].successful = 1
    /\ sending.returned[1].errors[1] = [chunk |-> 1, error |-> Timeout]
    /\ sending.returned[1].errors[2].chunk = 2

\* ---- clear_qdrant.py: clear_collection ----

SCROLL_LIMIT == 10000
BATCH_SIZE == 1000

\* the number of points in the collection when clear_collection is called
PointCounts == { 0, 1, 999, 1000, 1001, 2500, 5000, 10000, 10001, 12000 }

QdrantOutcomes == { "ok", "error" }

\* client.scroll(collection_name, limit=10000): the first page of points
ScrollPage(points) == Min(points, SCROLL_LIMIT)

\* point_ids[i:i + batch_size], of the ids not yet deleted
Batch(point_ids) == Min(point_ids, BATCH_SIZE)

InitQdrant ==
    /\ documents = {}
    /\ nextId = 1
    /\ graphVertices = {}
    /\ documentNodes = {}
    /\ openSessions = 0
    /\ req = [p \in Procs |-> Idle]
    /\ deleted = {}
    /\ completion = NoCall
    /\ lightrag = NoCall
    /\ chunking = NoCall
    /\ sending = NoCall
    /\ \E exists \in BOOLEAN, points \in PointCounts, delete_collection \in BOOLEAN :
          /\ exists \/ points = 0
          /\ qdrant = [pc |-> "called", exists |-> exists, points |-> points,
                       existed |-> exists, points_count |-> points,
                       delete_collection |-> delete_collection,
                       point_ids |-> 0, returned |-> None]

\* clear_collection from its call to the first client.delete, or to its
\* return when there is none
ClearCollection(outcome) ==
    /\ qdrant.pc = "called"
    /\ UNCHANGED << documents, nextId, graphVertices, documentNodes, openSessions,
                    req, deleted, completion, lightrag, chunking, sending >>
    /\ IF outcome = "error"
       THEN qdrant' = [qdrant EXCEPT !.pc = "done", !.returned = Some(FALSE)]
       ELSE IF ~qdrant.exists
       THEN qdrant' = [qdrant EXCEPT !.pc = "done", !.returned = Some(FALSE)]
       ELSE IF qdrant.points = 0 \/ qdrant.delete_collection
       THEN qdrant' = [qdrant EXCEPT
                         !.pc = "done",
                         !.exists = ~qdrant.delete_collection,
                         !.points = 0,
                         !.returned = Some(TRUE)]
       ELSE qdrant' = [qdrant EXCEPT
                         !.pc = "deleting",
                         !.point_ids = ScrollPage(qdrant.points)]

\* one pass of for i in range(0, len(point_ids), batch_size)
DeleteBatch(outcome) ==
    /\ qdrant.pc = "deleting"
    /\ UNCHANGED << documents, nextId, graphVertices, documentNodes, openSessions,
                    req, deleted, completion, lightrag, chunking, sending >>
    /\ LET batch == Batch(qdrant.point_ids)
       IN  IF outcome = "error"
           THEN qdrant' = [qdrant EXCEPT !.pc = "done", !.returned = Some(FALSE)]
           ELSE qdrant' = [qdrant EXCEPT
                             !.points = @ - batch,
                             !.point_ids = @ - batch,
                             !.pc = IF qdrant.point_ids - batch = 0
                                    THEN "done" ELSE "deleting",
                             !.returned = IF qdrant.point_ids - batch = 0
                                          THEN Some(TRUE) ELSE None]

NextQdrant ==
    \/ \E o \in QdrantOutcomes : ClearCollection(o)
    \/ \E o \in QdrantOutcomes : DeleteBatch(o)

SpecQdrant == InitQdrant /\ [][NextQdrant]_vars

\* C30: clear_collection(client, name, delete_collection=False) removes all
\* points: whenever it returns True for an existing collection, the
\* collection has no points afterwards, whatever the number of points
\* before; for a collection that does not exist it returns False and
\* changes nothing.
C30_ClearRemovesAllPoints ==
    (qdrant.pc = "done" /\ ~qdrant.delete_collection)
    => /\ (qdrant.existed /\ qdrant.returned = Some(TRUE))
          => qdrant.exists /\ qdrant.points = 0
       /\ ~qdrant.existed
          => /\ qdrant.returned = Some(FALSE)
             /\ ~qdrant.exists
             /\ qdrant.points = qdrant.points_count

====
